---------------------------- MODULE Spec2Model ----------------------------
(***************************************************************************)
(* Model of the periodic availability monitor of src/health_check.py:     *)
(* the coordinating control flow of main(), the ThreadPoolExecutor         *)
(* workers running check_and_record_endpoint_status, the per-domain        *)
(* DomainRecord counters with their lock, the SIGINT event, and the pure   *)
(* function batch_endpoints.                                               *)
(*                                                                         *)
(* A parsed EndpointRecord is represented by its domain: name, url, method, *)
(* headers and body are passed to the transport and influence nothing      *)
(* else.  The transport (requests.request) is an external capability and   *)
(* answers nondeterministically.  Time is the number of seconds elapsed    *)
(* since start_time, saturated at the interval (only comparisons with the  *)
(* interval are made by the code).                                         *)
(***************************************************************************)
EXTENDS Integers, Sequences, FiniteSets, TLC

\* ------------------------------------------------------- program constants
\* health_check.py:19 sets MAX_THREADS = 200; the model runs the same code
\* with a pool of one worker thread, hence batches of two endpoints.
MAX_THREADS == 1
HEALTHCHECK_INTERVAL_SECONDS == 15

\* ------------------------------------------------------------------ bounds
\* Largest endpoint list read from the YAML file.
MaxEndpoints == 3
\* Number of check cycles the model lets the scheduler start.
MaxCycles == 2
\* Number of exceptions other than RequestException that requests.request
\* raises in a run.
MaxRaises == 1
\* Seconds by which one Tick advances the clock.
TickSeconds == 8
\* Largest list and largest pool size given to batch_endpoints in SpecBatch.
MaxBatchInput == 4
MaxBatchThreads == 3
\* Largest status code of the responses of SpecClassify (the smallest is 100).
MaxStatus == 599
\* Largest YAML list of SpecLoad, whose descriptors may be malformed.
MaxLoaded == 2

\* The netloc of the urls of the YAML file; "" is what urlparse gives for a
\* url without "//".
Domains == {"a", "b", ""}
StatusCodes == {199, 200, 299, 300}

Min(x, y) == IF x <= y THEN x ELSE y

VARIABLES
    pc,                 \* position of main() (the coordinator)
    sigint_event,       \* threading.Event set by sigint_handler
    loaded,             \* yaml.safe_load of the file: list of endpoint descriptors
    endpoints,          \* parsed_endpoints: list of endpoint domains
    batched_endpoints,  \* result of batch_endpoints
    registry,           \* keys of domain_status_map, in insertion order
    num_up,             \* DomainRecord.num_up, per domain
    num_total,          \* DomainRecord.num_total, per domain
    lock,               \* DomainRecord.lock: holder (a unit) or 0
    batch,              \* index of the batch of the for loop of line 184
    next_submit,        \* index in the batch of the next endpoint to submit
    elapsed,            \* time.time() - start_time, saturated at the interval
    cycle,              \* number of cycles started
    ust,                \* per unit (position in the shuffled list): its state
    is_up,              \* per unit: local is_domain_up / is_up
    reg,                \* per unit: value read by num_up += 1 / num_total += 1
    calls,              \* per unit: add_endpoint_result calls of its finished future
    reqs,               \* per unit: transport requests of its finished future
    fut_exc,            \* per unit: its future holds an exception
    req_failed,         \* per unit: its request raised RequestException (response is None)
    raises,             \* exceptions other than RequestException raised so far
    ret_up,             \* per domain: returned add_endpoint_result(True) calls
    ret_total,          \* per domain: returned add_endpoint_result calls
    dpos,               \* display_availability: index in registry
    dpc,                \* display_availability: position in get_availability
    dreg,               \* display_availability: num_up read by get_availability
    snapshot,           \* availability printed per domain in the current cycle (-1: none)
    reports,            \* snapshots completed in the current cycle
    out,                \* termination messages printed
    arg_endpoints,      \* SpecBatch: the list given to batch_endpoints
    arg_threads,        \* SpecBatch: the value of MAX_THREADS it runs with
    ret_batches,        \* SpecBatch: the call made and what it returned
    arg_outcome         \* SpecClassify: the answer of requests.request

schedVars == <<pc, sigint_event, loaded, endpoints, batched_endpoints, registry, batch,
               next_submit, elapsed, cycle, dpos, dpc, dreg, snapshot, reports, out>>
domainVars == <<num_up, num_total, lock, ret_up, ret_total>>
unitVars == <<ust, is_up, reg, calls, reqs, fut_exc, req_failed>>
batchVars == <<arg_endpoints, arg_threads, ret_batches, arg_outcome>>
vars == <<schedVars, domainVars, unitVars, raises, batchVars>>

Units == 1..MaxEndpoints

\* ------------------------------------------------------------ pure functions

\* round() of Python 3 on the exact quotient n/d: nearest integer, ties to even.
\* (The code rounds the float 100 * (num_up / num_total); for num_total < 40
\* the float and the exact quotient round alike.)
PyRound(n, d) ==
    LET q == n \div d
        r == n % d
    IN  IF 2 * r < d THEN q
        ELSE IF 2 * r > d THEN q + 1
        ELSE IF q % 2 = 0 THEN q ELSE q + 1

\* DomainRecord.get_availability, lines 58-61, on the values it read.
get_availability(up, total) ==
    IF total = 0 THEN 0 ELSE PyRound(100 * up, total)

\* random.shuffle: every rearrangement of the list.
Shuffles(s) ==
    LET n == Len(s)
        Perms == {f \in [1..n -> 1..n] : \A i, k \in 1..n : i # k => f[i] # f[k]}
    IN  {[i \in 1..n |-> s[f[i]]] : f \in Perms}

\* min(MAX_THREADS * 2, len(endpoints)) with MAX_THREADS = threads
BatchSize(n, threads) == Min(threads * 2, n)

\* endpoints[i:i + batch_size]
Slice(s, i, size) == SubSeq(s, i + 1, Min(i + size, Len(s)))

\* Slices with the last, shorter batch forgotten (len // batch_size batches).
Slices_Floor(s, size) ==
    LET count == Len(s) \div size
    IN  [k \in 1..count |-> Slice(s, (k - 1) * size, size)]

\* [endpoints[i:i + batch_size] for i in range(0, len(endpoints), batch_size)]
Slices(s, size) ==
    LET count == (Len(s) + size - 1) \div size
    IN  [k \in 1..count |-> Slice(s, (k - 1) * size, size)]

\* batch_endpoints on the outcome `shuffled` of random.shuffle: range() raises
\* ValueError when its step, batch_size, is 0.
batch_endpoints(shuffled, threads) ==
    LET size == BatchSize(Len(shuffled), threads)
    IN  IF size = 0
        THEN [raised |-> TRUE, value |-> <<>>]
        ELSE [raised |-> FALSE, value |-> Slices(shuffled, size)]

\* The keys parse_endpoints leaves in domain_status_map, in insertion order.
RECURSIVE ParseDomains(_, _)
ParseDomains(s, acc) ==
    IF s = <<>> THEN acc
    ELSE ParseDomains(Tail(s),
                      IF \E i \in 1..Len(acc) : acc[i] = Head(s)
                      THEN acc ELSE Append(acc, Head(s)))

\* urllib.parse.urlparse(url).netloc: the part between "//" and the next "/";
\* a url without "//" has the empty netloc; an unclosed "[" raises ValueError.
urlparse(url) ==
    CASE url = "http://a/"   -> [raised |-> FALSE, netloc |-> "a"]
      [] url = "http://b/"   -> [raised |-> FALSE, netloc |-> "b"]
      [] url = "not a url"   -> [raised |-> FALSE, netloc |-> ""]
      [] url = "http://[::1" -> [raised |-> TRUE, netloc |-> ""]

\* EndpointRecord.__init__, lines 25-27: yaml_dict["name"] and
\* yaml_dict["url"] raise KeyError for a missing key, urlparse may raise.
EndpointRecord(yaml_dict) ==
    IF "name" \notin DOMAIN yaml_dict \/ "url" \notin DOMAIN yaml_dict
    THEN [raised |-> TRUE, domain |-> ""]
    ELSE [raised |-> urlparse(yaml_dict.url).raised,
          domain |-> urlparse(yaml_dict.url).netloc]

\* parse_endpoints, lines 79-85, on the loaded list: the records made before
\* the first descriptor that raises are registered; without an exception the
\* list of the records is returned.
parse_endpoints(yaml_list) ==
    LET bad == {i \in 1..Len(yaml_list) : EndpointRecord(yaml_list[i]).raised}
        good == IF bad = {} THEN Len(yaml_list)
                ELSE (CHOOSE i \in bad : \A k \in bad : i <= k) - 1
        records == [i \in 1..good |-> EndpointRecord(yaml_list[i]).domain]
    IN  [raised |-> bad # {},
         registry |-> ParseDomains(records, <<>>),
         value |-> IF bad = {} THEN records ELSE <<>>]

\* ------------------------------------------------------------------- Init

\* The endpoint list of the YAML file: the second endpoint is on domain "b",
\* the others on domain "a".
Config(n) ==
    [i \in 1..n |-> [name |-> "e",
                     url |-> IF i = 2 THEN "http://b/" ELSE "http://a/"]]

\* The state when main() is entered: nothing parsed, the counters of every
\* DomainRecord at 0 (lines 47-48), no unit submitted.
StartState ==
    /\ sigint_event = FALSE
    /\ num_up = [d \in Domains |-> 0]
    /\ num_total = [d \in Domains |-> 0]
    /\ lock = [d \in Domains |-> 0]
    /\ batch = 1
    /\ next_submit = 1
    /\ elapsed = 0
    /\ reg = [u \in Units |-> 0]
    /\ calls = [u \in Units |-> 0]
    /\ fut_exc = [u \in Units |-> FALSE]
    /\ req_failed = [u \in Units |-> FALSE]
    /\ ret_up = [d \in Domains |-> 0]
    /\ ret_total = [d \in Domains |-> 0]
    /\ dpos = 1
    /\ dpc = "check_zero"
    /\ dreg = 0
    /\ snapshot = [d \in Domains |-> -1]
    /\ reports = 0
    /\ out = {}
    /\ raises = 0

NoBatchCall == [called |-> FALSE, raised |-> FALSE, value |-> <<>>]
NoOutcome == [exc |-> "none", status |-> 0]

Init ==
    /\ StartState
    /\ pc = "idle"
    /\ \E n \in 0..MaxEndpoints : loaded = Config(n)
    /\ endpoints = <<>>
    /\ batched_endpoints = <<>>
    /\ registry = <<>>
    /\ cycle = 0
    /\ ust = [u \in Units |-> "idle"]
    /\ is_up = [u \in Units |-> FALSE]
    /\ reqs = [u \in Units |-> 0]
    /\ arg_endpoints = <<>>
    /\ arg_threads = MAX_THREADS
    /\ ret_batches = NoBatchCall
    /\ arg_outcome = NoOutcome

\* ------------------------------------------------------------ the coordinator

\* The unit (position in the shuffled list) of endpoint j of batch b.
UnitOf(b, j) == (b - 1) * Len(batched_endpoints[1]) + j
BatchUnits(b) == {UnitOf(b, j) : j \in 1..Len(batched_endpoints[b])}
DomainOf(u) == endpoints[u]

\* A unit the pool has accepted and not finished.
InFlight(u) == ust[u] \notin {"idle", "done", "yielded"}
\* A unit a worker thread is running.
Running(u) == InFlight(u) /\ ust[u] # "queued"

\* main, lines 180-181: parse_endpoints and batch_endpoints; an exception is
\* caught at line 213 and the with block is left.
Load ==
    /\ pc = "idle"
    /\ LET p == parse_endpoints(loaded)
       IN  /\ registry' = p.registry
           /\ IF p.raised
              THEN /\ pc' = "join"
                   /\ out' = out \cup {"exception"}
                   /\ UNCHANGED <<endpoints, batched_endpoints>>
              ELSE \E shuffled \in Shuffles(p.value) :
                      LET r == batch_endpoints(shuffled, MAX_THREADS)
                      IN  /\ endpoints' = shuffled
                          /\ IF r.raised
                             THEN /\ pc' = "join"
                                  /\ out' = out \cup {"exception"}
                                  /\ batched_endpoints' = <<>>
                             ELSE /\ pc' = "loop"
                                  /\ out' = out
                                  /\ batched_endpoints' = r.value
    /\ UNCHANGED <<sigint_event, loaded, batch, next_submit, elapsed, cycle, dpos, dpc,
                   dreg, snapshot, reports>>
    /\ UNCHANGED <<domainVars, unitVars, batchVars, raises>>

\* main, lines 182-184: the while test, start_time, the first batch.
LoopTest ==
    /\ pc = "loop"
    /\ IF sigint_event
       THEN /\ pc' = "shutdown"
            /\ UNCHANGED <<batch, next_submit, elapsed, cycle, snapshot, reports>>
       ELSE /\ cycle < MaxCycles
            /\ cycle' = cycle + 1
            /\ elapsed' = 0
            /\ batch' = 1
            /\ next_submit' = 1
            /\ snapshot' = [d \in Domains |-> -1]
            /\ reports' = 0
            /\ pc' = "submit"
    /\ UNCHANGED <<sigint_event, loaded, endpoints, batched_endpoints, registry, dpos,
                   dpc, dreg, out>>
    /\ UNCHANGED <<domainVars, unitVars, batchVars, raises>>

\* main, lines 186-188: executor.submit of one endpoint of the batch.
Submit ==
    /\ pc = "submit"
    /\ LET u == UnitOf(batch, next_submit)
       IN  /\ ust' = [ust EXCEPT ![u] = "queued"]
           /\ calls' = [calls EXCEPT ![u] = 0]
           /\ reqs' = [reqs EXCEPT ![u] = 0]
           /\ fut_exc' = [fut_exc EXCEPT ![u] = FALSE]
           /\ req_failed' = [req_failed EXCEPT ![u] = FALSE]
    /\ IF next_submit = Len(batched_endpoints[batch])
       THEN pc' = "wait" /\ next_submit' = 1
       ELSE pc' = "submit" /\ next_submit' = next_submit + 1
    /\ UNCHANGED <<sigint_event, loaded, endpoints, batched_endpoints, registry, batch,
                   elapsed, cycle, dpos, dpc, dreg, snapshot, reports, out>>
    /\ UNCHANGED <<domainVars, is_up, reg, batchVars, raises>>

\* The while loop of main has been left: STOPPED.
Stopped == pc \in {"shutdown", "join", "exited"}

\* The test of line 190 after as_completed has yielded a future.
BreakOnSigint == sigint_event

\* main, lines 189-191: as_completed yields a finished future of the batch,
\* and the loop breaks if SIGINT was received.  The future is never looked
\* at (the loop variable is _), so what it holds is dropped here.
AsCompletedYield(u) ==
    /\ pc = "wait"
    /\ u \in BatchUnits(batch)
    /\ ust[u] = "done"
    /\ ust' = [ust EXCEPT ![u] = "yielded"]
    /\ calls' = [calls EXCEPT ![u] = 0]
    /\ reqs' = [reqs EXCEPT ![u] = 0]
    /\ fut_exc' = [fut_exc EXCEPT ![u] = FALSE]
    /\ req_failed' = [req_failed EXCEPT ![u] = FALSE]
    /\ pc' = IF BreakOnSigint THEN "after_wait" ELSE "wait"
    /\ UNCHANGED <<sigint_event, loaded, endpoints, batched_endpoints, registry, batch,
                   next_submit, elapsed, cycle, dpos, dpc, dreg, snapshot,
                   reports, out>>
    /\ UNCHANGED <<domainVars, is_up, reg, batchVars, raises>>

\* as_completed ending as soon as it has yielded one future.
Exhausted_Any(b) == \E u \in BatchUnits(b) : ust[u] = "yielded"

\* as_completed is exhausted when it has yielded every future of the batch.
Exhausted(b) == \A u \in BatchUnits(b) : ust[u] = "yielded"

\* main, line 189: the for loop over as_completed ends.
AsCompletedEnd ==
    /\ pc = "wait"
    /\ Exhausted(batch)
    /\ pc' = "after_wait"
    /\ UNCHANGED <<sigint_event, loaded, endpoints, batched_endpoints, registry, batch,
                   next_submit, elapsed, cycle, dpos, dpc, dreg, snapshot,
                   reports, out>>
    /\ UNCHANGED <<domainVars, unitVars, batchVars, raises>>

\* main, lines 192-193 and the for of line 184: leave the batches on SIGINT,
\* else go on with the next batch, else the batches are done.
AfterWait ==
    /\ pc = "after_wait"
    /\ IF sigint_event
       THEN pc' = "display" /\ UNCHANGED batch
       ELSE IF batch < Len(batched_endpoints)
            THEN pc' = "submit" /\ batch' = batch + 1
            ELSE pc' = "display" /\ UNCHANGED batch
    /\ dpos' = 1
    /\ dpc' = "check_zero"
    /\ UNCHANGED <<sigint_event, loaded, endpoints, batched_endpoints, registry,
                   next_submit, elapsed, cycle, dreg, snapshot, reports, out>>
    /\ UNCHANGED <<domainVars, unitVars, batchVars, raises>>

\* display_availability stopping after the first record.
LastRecord_First == dpos = 1

\* display_availability, line 145: the for loop is at the last record.
LastRecord == dpos = Len(registry)

\* display_availability, line 145: the next record, or the end of the report
\* (main, line 194 returns).
DisplayAdvance ==
    /\ dpc' = "check_zero"
    /\ dreg' = 0
    /\ IF LastRecord
       THEN pc' = "compute" /\ dpos' = 1 /\ reports' = reports + 1
       ELSE pc' = "display" /\ dpos' = dpos + 1 /\ reports' = reports

\* get_availability, line 58: the test num_total == 0.
DisplayCheckZero ==
    /\ pc = "display"
    /\ dpc = "check_zero"
    /\ LET d == registry[dpos]
       IN  IF num_total[d] = 0
           THEN /\ snapshot' = [snapshot EXCEPT ![d] = get_availability(0, 0)]
                /\ DisplayAdvance
           ELSE /\ dpc' = "read_up"
                /\ UNCHANGED <<pc, dpos, dreg, snapshot, reports>>
    /\ UNCHANGED <<sigint_event, loaded, endpoints, batched_endpoints, registry, batch,
                   next_submit, elapsed, cycle, out>>
    /\ UNCHANGED <<domainVars, unitVars, batchVars, raises>>

\* get_availability, line 61: the read of num_up.
DisplayReadUp ==
    /\ pc = "display"
    /\ dpc = "read_up"
    /\ dreg' = num_up[registry[dpos]]
    /\ dpc' = "read_total"
    /\ UNCHANGED <<pc, sigint_event, loaded, endpoints, batched_endpoints, registry,
                   batch, next_submit, elapsed, cycle, dpos, snapshot, reports, out>>
    /\ UNCHANGED <<domainVars, unitVars, batchVars, raises>>

\* get_availability, line 61: the read of num_total, the quotient, round;
\* display_availability, line 146: the line is printed.
DisplayReadTotal ==
    /\ pc = "display"
    /\ dpc = "read_total"
    /\ LET d == registry[dpos]
       IN  snapshot' = [snapshot EXCEPT ![d] = get_availability(dreg, num_total[d])]
    /\ DisplayAdvance
    /\ UNCHANGED <<sigint_event, loaded, endpoints, batched_endpoints, registry, batch,
                   next_submit, elapsed, cycle, out>>
    /\ UNCHANGED <<domainVars, unitVars, batchVars, raises>>

\* The overrun test written remain_time < 0.
Overrun_Strict == HEALTHCHECK_INTERVAL_SECONDS - elapsed < 0

\* remain_time <= 0 of line 200, with remain_time of line 196.
Overrun == HEALTHCHECK_INTERVAL_SECONDS - elapsed <= 0

\* main, lines 195-203: the remaining time; an overrun is reported and the
\* while loop is left.
Compute ==
    /\ pc = "compute"
    /\ IF Overrun
       THEN pc' = "shutdown" /\ out' = out \cup {"overrun"}
       ELSE pc' = "sleep" /\ out' = out
    /\ UNCHANGED <<sigint_event, loaded, endpoints, batched_endpoints, registry, batch,
                   next_submit, elapsed, cycle, dpos, dpc, dreg, snapshot, reports>>
    /\ UNCHANGED <<domainVars, unitVars, batchVars, raises>>

\* The inter-cycle wait not looking at the SIGINT event.
SleepOver_NoSigint == ~(elapsed < HEALTHCHECK_INTERVAL_SECONDS)

\* The negation of the test of line 204: the inter-cycle wait is over.
SleepOver == ~(elapsed < HEALTHCHECK_INTERVAL_SECONDS) \/ sigint_event

\* main, lines 204-206: the wait loop ends (while it lasts, time passes: Tick).
Sleep ==
    /\ pc = "sleep"
    /\ SleepOver
    /\ pc' = "loop"
    /\ UNCHANGED <<sigint_event, loaded, endpoints, batched_endpoints, registry, batch,
                   next_submit, elapsed, cycle, dpos, dpc, dreg, snapshot,
                   reports, out>>
    /\ UNCHANGED <<domainVars, unitVars, batchVars, raises>>

\* What line 208 prints after the while loop.
ShutdownMessage == {"stopping"}

\* main, lines 207-208: executor.shutdown(wait=False) and the message.
Shutdown ==
    /\ pc = "shutdown"
    /\ out' = out \cup ShutdownMessage
    /\ pc' = "join"
    /\ UNCHANGED <<sigint_event, loaded, endpoints, batched_endpoints, registry, batch,
                   next_submit, elapsed, cycle, dpos, dpc, dreg, snapshot, reports>>
    /\ UNCHANGED <<domainVars, unitVars, batchVars, raises>>

\* The with block left without waiting for the workers.
WorkersEnded_NoWait == TRUE

\* ThreadPoolExecutor.__exit__ is shutdown(wait=True): it returns when the
\* queue is empty and every worker thread has ended.
WorkersEnded == \A u \in Units : ~InFlight(u)

\* main, line 178: leaving the with block.
Join ==
    /\ pc = "join"
    /\ WorkersEnded
    /\ pc' = "exited"
    /\ UNCHANGED <<sigint_event, loaded, endpoints, batched_endpoints, registry, batch,
                   next_submit, elapsed, cycle, dpos, dpc, dreg, snapshot,
                   reports, out>>
    /\ UNCHANGED <<domainVars, unitVars, batchVars, raises>>

\* sigint_handler, lines 150-152, registered at line 177.
SigintHandler ==
    /\ pc # "exited"
    /\ ~sigint_event
    /\ sigint_event' = TRUE
    /\ UNCHANGED <<pc, loaded, endpoints, batched_endpoints, registry, batch, next_submit,
                   elapsed, cycle, dpos, dpc, dreg, snapshot, reports, out>>
    /\ UNCHANGED <<domainVars, unitVars, batchVars, raises>>

\* Time passes.  The clock is read at lines 195 and 204 only, so the time
\* that has passed since start_time is accounted for where it is read.
Tick ==
    /\ pc \in {"compute", "sleep"}
    /\ elapsed < HEALTHCHECK_INTERVAL_SECONDS
    /\ elapsed' = Min(elapsed + TickSeconds, HEALTHCHECK_INTERVAL_SECONDS)
    /\ UNCHANGED <<pc, sigint_event, loaded, endpoints, batched_endpoints, registry, batch,
                   next_submit, cycle, dpos, dpc, dreg, snapshot, reports, out>>
    /\ UNCHANGED <<domainVars, unitVars, batchVars, raises>>


\* ------------------------------------------------------------ the pool workers

\* The answers of requests.request: a response with a status code, a
\* RequestException (timeout, connection error, ...), or any other exception.
Outcomes ==
    {[exc |-> "none", status |-> c] : c \in StatusCodes}
        \cup {[exc |-> "RequestException", status |-> 0],
              [exc |-> "Exception", status |-> 0]}

\* The work queue of the ThreadPoolExecutor is first in, first out, and units
\* are submitted in the order of the shuffled list.
QueueHead(u) == ust[u] = "queued" /\ \A v \in Units : ust[v] = "queued" => u <= v

\* A worker thread is free to take a unit.
WorkerFree == Cardinality({v \in Units : Running(v)}) < MAX_THREADS

\* The test of line 126 inverted, and left out.
RefuseToStart_Inverted == ~sigint_event
RefuseToStart_Never == FALSE

\* The test of line 126.
RefuseToStart == sigint_event

\* check_and_record_endpoint_status, lines 126-127, on a worker that took the
\* unit from the queue: nothing is done once SIGINT was received.
WorkerStart(u) ==
    /\ QueueHead(u)
    /\ WorkerFree
    /\ ust' = [ust EXCEPT ![u] = IF RefuseToStart THEN "done" ELSE "request"]
    /\ UNCHANGED <<schedVars, domainVars, is_up, reg, calls, reqs, fut_exc, req_failed,
                   batchVars, raises>>

\* line 138 with 299 left out of the range.
Classify_Below299(o) == o.exc = "none" /\ 200 <= o.status /\ o.status < 299

\* line 138: response is not None and 200 <= response.status_code <= 299
Classify(o) == o.exc = "none" /\ 200 <= o.status /\ o.status <= 299

\* The request without its except clause: every exception leaves the function.
Raises_All(o) == o.exc # "none"

\* lines 134-137: except RequestException: pass; any other exception leaves
\* the function.
Raises(o) == o.exc \notin {"none", "RequestException"}

\* lines 134-138: the request; a RequestException is swallowed, any other
\* exception ends the unit (the future keeps it).
Request(u, o) ==
    /\ ust[u] = "request"
    /\ reqs' = [reqs EXCEPT ![u] = @ + 1]
    /\ req_failed' = [req_failed EXCEPT ![u] = o.exc = "RequestException"]
    /\ IF Raises(o)
       THEN /\ raises < MaxRaises
            /\ raises' = raises + 1
            /\ ust' = [ust EXCEPT ![u] = "done"]
            /\ fut_exc' = [fut_exc EXCEPT ![u] = TRUE]
            /\ UNCHANGED is_up
       ELSE /\ ust' = [ust EXCEPT ![u] = "lock"]
            /\ is_up' = [is_up EXCEPT ![u] = Classify(o)]
            /\ UNCHANGED <<fut_exc, raises>>
    /\ UNCHANGED <<schedVars, domainVars, reg, calls, batchVars>>

\* add_endpoint_result without its lock.
LockFree_NoLock(d) == TRUE

\* The RLock of the record can be taken.
LockFree(d) == lock[d] = 0

\* add_endpoint_result, lines 52-55: with self.lock, and the read of the
\* first counter to increment (num_up if is_up, else num_total).
Acquire(u) ==
    /\ ust[u] = "lock"
    /\ LockFree(DomainOf(u))
    /\ lock' = [lock EXCEPT ![DomainOf(u)] = u]
    /\ IF is_up[u]
       THEN /\ reg' = [reg EXCEPT ![u] = num_up[DomainOf(u)]]
            /\ ust' = [ust EXCEPT ![u] = "write_up"]
       ELSE /\ reg' = [reg EXCEPT ![u] = num_total[DomainOf(u)]]
            /\ ust' = [ust EXCEPT ![u] = "write_total"]
    /\ UNCHANGED <<schedVars, num_up, num_total, ret_up, ret_total, is_up,
                   calls, reqs, fut_exc, req_failed, batchVars, raises>>

\* line 54, self.num_up += 1: the write
WriteUp(u) ==
    /\ ust[u] = "write_up"
    /\ num_up' = [num_up EXCEPT ![DomainOf(u)] = reg[u] + 1]
    /\ reg' = [reg EXCEPT ![u] = 0]
    /\ ust' = [ust EXCEPT ![u] = "read_total"]
    /\ UNCHANGED <<schedVars, num_total, lock, ret_up, ret_total, is_up, calls,
                   reqs, fut_exc, req_failed, batchVars, raises>>

\* line 55, self.num_total += 1: the read
ReadTotal(u) ==
    /\ ust[u] = "read_total"
    /\ reg' = [reg EXCEPT ![u] = num_total[DomainOf(u)]]
    /\ ust' = [ust EXCEPT ![u] = "write_total"]
    /\ UNCHANGED <<schedVars, domainVars, is_up, calls, reqs, fut_exc, req_failed,
                   batchVars, raises>>

\* line 55, self.num_total += 1: the write; then the with block ends: the lock
\* is released, add_endpoint_result and the unit return, the future is finished.
WriteTotal(u) ==
    /\ ust[u] = "write_total"
    /\ num_total' = [num_total EXCEPT ![DomainOf(u)] = reg[u] + 1]
    /\ reg' = [reg EXCEPT ![u] = 0]
    /\ lock' = [lock EXCEPT ![DomainOf(u)] = 0]
    /\ ret_total' = [ret_total EXCEPT ![DomainOf(u)] = @ + 1]
    /\ ret_up' = [ret_up EXCEPT ![DomainOf(u)] = IF is_up[u] THEN @ + 1 ELSE @]
    /\ calls' = [calls EXCEPT ![u] = @ + 1]
    /\ is_up' = [is_up EXCEPT ![u] = FALSE]
    /\ ust' = [ust EXCEPT ![u] = "done"]
    /\ req_failed' = [req_failed EXCEPT ![u] = FALSE]
    /\ UNCHANGED <<schedVars, num_up, reqs, fut_exc, batchVars, raises>>

\* ------------------------------------------------------------ specification

Coordinator ==
    \/ Load
    \/ LoopTest
    \/ Submit
    \/ \E u \in Units : AsCompletedYield(u)
    \/ AsCompletedEnd
    \/ AfterWait
    \/ DisplayCheckZero
    \/ DisplayReadUp
    \/ DisplayReadTotal
    \/ Compute
    \/ Sleep
    \/ Shutdown
    \/ Join

Worker(u) ==
    \/ WorkerStart(u)
    \/ \E o \in Outcomes : Request(u, o)
    \/ Acquire(u)
    \/ WriteUp(u)
    \/ ReadTotal(u)
    \/ WriteTotal(u)

Next ==
    \/ Coordinator
    \/ \E u \in Units : Worker(u)
    \/ SigintHandler
    \/ Tick

Spec == Init /\ [][Next]_vars

\* The main thread keeps running, and so do the worker threads of the pool;
\* requests.request returns or raises within its timeout.
FairSpec ==
    /\ Spec
    /\ WF_vars(Coordinator)
    /\ WF_vars(\E u \in Units : Worker(u))

\* ------------------------------------------ DomainRecord under concurrent calls
\* With the MAX_THREADS = 200 of the source many workers are inside
\* add_endpoint_result at once.  SpecRecord starts where the coordinator waits
\* on a batch that holds every endpoint and each unit has its response and is
\* about to call add_endpoint_result; the workers then run lines 51-55.

InitRecord ==
    /\ StartState
    /\ pc = "wait"
    /\ loaded = <<>>
    /\ endpoints \in [1..MaxEndpoints -> Domains]
    /\ batched_endpoints = <<endpoints>>
    /\ registry = ParseDomains(endpoints, <<>>)
    /\ cycle = 1
    /\ ust = [u \in Units |-> "lock"]
    /\ is_up \in [Units -> BOOLEAN]
    /\ reqs = [u \in Units |-> 1]
    /\ arg_endpoints = <<>>
    /\ arg_threads = MAX_THREADS
    /\ ret_batches = NoBatchCall
    /\ arg_outcome = NoOutcome

NextRecord ==
    \E u \in Units :
        \/ Acquire(u)
        \/ WriteUp(u)
        \/ ReadTotal(u)
        \/ WriteTotal(u)

SpecRecord == InitRecord /\ [][NextRecord]_vars

\* ------------------------------------------------- batch_endpoints as a function
\* SpecBatch calls batch_endpoints once on a list of n distinct endpoints,
\* written 1..n, with MAX_THREADS = arg_threads.

InitBatch ==
    /\ StartState
    /\ pc = "idle"
    /\ loaded = <<>>
    /\ endpoints = <<>>
    /\ batched_endpoints = <<>>
    /\ registry = <<>>
    /\ cycle = 0
    /\ ust = [u \in Units |-> "idle"]
    /\ is_up = [u \in Units |-> FALSE]
    /\ reqs = [u \in Units |-> 0]
    /\ \E n \in 0..MaxBatchInput : arg_endpoints = [i \in 1..n |-> i]
    /\ arg_threads \in 1..MaxBatchThreads
    /\ ret_batches = NoBatchCall
    /\ arg_outcome = NoOutcome

\* batch_endpoints, lines 108-110: random.shuffle rearranges the list in
\* place, then the slices are returned, or range() raises.
CallBatchEndpoints ==
    /\ ~ret_batches.called
    /\ \E shuffled \in Shuffles(arg_endpoints) :
          LET r == batch_endpoints(shuffled, arg_threads)
          IN  /\ arg_endpoints' = shuffled
              /\ ret_batches' = [called |-> TRUE, raised |-> r.raised,
                                 value |-> r.value]
    /\ UNCHANGED <<schedVars, domainVars, unitVars, raises, arg_threads, arg_outcome>>

SpecBatch == InitBatch /\ [][CallBatchEndpoints]_vars

\* ------------------------------------------------ the classification of line 138
\* SpecClassify runs one check unit from its request on: the only endpoint of
\* the list is submitted and taken by a worker, and requests.request answers
\* with arg_outcome: a response with a status code of 100..MaxStatus, a
\* RequestException, or another exception.

AllOutcomes ==
    {[exc |-> "none", status |-> c] : c \in 100..MaxStatus}
        \cup {[exc |-> "RequestException", status |-> 0],
              [exc |-> "Exception", status |-> 0]}

InitClassify ==
    /\ StartState
    /\ pc = "wait"
    /\ loaded = Config(1)
    /\ endpoints = parse_endpoints(loaded).value
    /\ batched_endpoints = <<endpoints>>
    /\ registry = parse_endpoints(loaded).registry
    /\ cycle = 1
    /\ ust = [u \in Units |-> IF u = 1 THEN "request" ELSE "idle"]
    /\ is_up = [u \in Units |-> FALSE]
    /\ reqs = [u \in Units |-> 0]
    /\ arg_endpoints = <<>>
    /\ arg_threads = MAX_THREADS
    /\ ret_batches = NoBatchCall
    /\ arg_outcome \in AllOutcomes

NextClassify ==
    \/ Request(1, arg_outcome)
    \/ Acquire(1)
    \/ WriteUp(1)
    \/ ReadTotal(1)
    \/ WriteTotal(1)

SpecClassify == InitClassify /\ [][NextClassify]_vars

\* ------------------------------------------------ the simpler variant, main.py
\* SpecVariant calls record_endpoint_status of src/main.py once, on the
\* record of a domain with no result yet, with the response that
\* check_endpoint_status got: arg_outcome, a response with a status code of
\* 100..MaxStatus, or None after a RequestException.

\* bool(response) of a requests Response is response.ok: no status code of
\* 400 or more; None is false.
Truthy(o) == o.exc = "none" /\ o.status < 400

\* main.py, lines 65-72: the result recorded is a down result.
RecordsDown(o) ==
    IF ~Truthy(o) THEN TRUE
    ELSE 200 < o.status \/ o.status > 299

InitVariant ==
    /\ StartState
    /\ pc = "idle"
    /\ loaded = Config(1)
    /\ endpoints = parse_endpoints(loaded).value
    /\ batched_endpoints = <<>>
    /\ registry = parse_endpoints(loaded).registry
    /\ cycle = 0
    /\ ust = [u \in Units |-> IF u = 1 THEN "lock" ELSE "idle"]
    /\ is_up = [u \in Units |-> FALSE]
    /\ reqs = [u \in Units |-> IF u = 1 THEN 1 ELSE 0]
    /\ arg_endpoints = <<>>
    /\ arg_threads = MAX_THREADS
    /\ ret_batches = NoBatchCall
    /\ arg_outcome \in {o \in AllOutcomes : o.exc # "Exception"}

\* main.py, record_endpoint_status (lines 64-72) with add_down_result
\* (lines 39-40) and add_up_result (lines 42-44).
record_endpoint_status ==
    /\ ust[1] = "lock"
    /\ LET d == DomainOf(1)
       IN  IF RecordsDown(arg_outcome)
           THEN /\ num_total' = [num_total EXCEPT ![d] = @ + 1]
                /\ UNCHANGED num_up
           ELSE /\ num_up' = [num_up EXCEPT ![d] = @ + 1]
                /\ num_total' = [num_total EXCEPT ![d] = @ + 1]
    /\ ust' = [ust EXCEPT ![1] = "done"]
    /\ UNCHANGED <<schedVars, lock, ret_up, ret_total, is_up, reg, calls, reqs,
                   fut_exc, req_failed, raises, batchVars>>

SpecVariant == InitVariant /\ [][record_endpoint_status]_vars

\* --------------------------------------------------- malformed configurations
\* SpecLoad runs main on every YAML list of at most MaxLoaded descriptors
\* taken from Descriptors: a well-formed one, one without name, one without
\* url, one whose url has no netloc, one whose url makes urlparse raise.

Descriptors ==
    {[name |-> "e", url |-> "http://a/"],
     [url |-> "http://a/"],
     [name |-> "e"],
     [name |-> "e", url |-> "not a url"],
     [name |-> "e", url |-> "http://[::1"]}

InitLoad ==
    /\ StartState
    /\ pc = "idle"
    /\ \E n \in 0..MaxLoaded : loaded \in [1..n -> Descriptors]
    /\ endpoints = <<>>
    /\ batched_endpoints = <<>>
    /\ registry = <<>>
    /\ cycle = 0
    /\ ust = [u \in Units |-> "idle"]
    /\ is_up = [u \in Units |-> FALSE]
    /\ reqs = [u \in Units |-> 0]
    /\ arg_endpoints = <<>>
    /\ arg_threads = MAX_THREADS
    /\ ret_batches = NoBatchCall
    /\ arg_outcome = NoOutcome

SpecLoad == InitLoad /\ [][Next]_vars


\* ------------------------------------------------------------------ claims

Abs(x) == IF x < 0 THEN -x ELSE x

\* C1 as claimed: every finished invocation of check_and_record_endpoint_status
\* has made exactly one add_endpoint_result call.
C1_ExactlyOneCallAlways ==
    \A u \in Units : ust[u] = "done" => calls[u] = 1

\* The steps C1 allows.
C1_Step ==
    \A u \in Units :
        /\ (ust[u] = "queued" /\ ust'[u] # "queued") =>
              IF sigint_event
              THEN ust'[u] = "done" /\ calls'[u] = 0 /\ reqs'[u] = 0
              ELSE ust'[u] = "request"
        /\ (ust[u] # "done" /\ ust'[u] = "done") =>
              /\ reqs'[u] <= 1
              /\ (reqs'[u] = 0) = (ust[u] = "queued")
              /\ calls'[u] = IF reqs'[u] = 0 \/ fut_exc'[u] THEN 0 ELSE 1

\* C1 as amended: an invocation that starts while the SIGINT event is set
\* returns at once, with no request and no add_endpoint_result call; one that
\* starts while it is not set goes on to its request; an invocation ends with
\* exactly one add_endpoint_result call if it made its request and the request
\* returned a response or raised a RequestException, with none otherwise, and
\* never with more than one.
C1_OneCallUnlessRefusedOrRaised == [][C1_Step]_vars

\* C1 witness: after SIGINT, one unit of a batch has recorded its result and
\* another was refused.
C1_Witness ==
    /\ sigint_event
    /\ \E u, v \in Units :
          /\ ust[u] = "done" /\ calls[u] = 1
          /\ ust[v] = "done" /\ calls[v] = 0 /\ reqs[v] = 0

\* C2: when no add_endpoint_result call on a record is past taking the lock,
\* num_total and num_up are the numbers of calls, and of calls with is_up,
\* that have returned, and get_availability is 0 for no call and else the
\* integer nearest to 100 * U / N.
C2_NoLostUpdate ==
    \A d \in Domains :
        (\A u \in Units : DomainOf(u) = d => ust[u] \in {"lock", "done"}) =>
            /\ num_total[d] = ret_total[d]
            /\ num_up[d] = ret_up[d]
            /\ LET a == get_availability(num_up[d], num_total[d])
               IN  IF ret_total[d] = 0
                   THEN a = 0
                   ELSE 2 * Abs(100 * ret_up[d] - a * ret_total[d]) <= ret_total[d]

\* C2 witness: three concurrent calls on one record have returned, two of
\* them up: availability 67.
C2_Witness ==
    /\ \A u \in Units : ust[u] = "done"
    /\ \E d \in Domains :
          /\ ret_total[d] = 3
          /\ ret_up[d] = 2
          /\ get_availability(num_up[d], num_total[d]) = 67

\* C3: while a batch is submitted, no unit of another batch is queued or
\* running; a wait that has ended without SIGINT has seen every unit of its
\* batch complete; and the units submitted and not completed are never more
\* than one batch, min(2 * MAX_THREADS, N).
C3_OneBatchInFlight ==
    batched_endpoints # <<>> =>
        /\ \A u \in Units : InFlight(u) => u \in BatchUnits(batch)
        /\ (pc = "after_wait" /\ ~sigint_event) =>
              \A u \in BatchUnits(batch) : ~InFlight(u)
        /\ Cardinality({u \in Units : InFlight(u)})
              <= Min(2 * MAX_THREADS, Len(endpoints))

\* C3 witness: the second batch is in flight after the first has completed.
C3_Witness ==
    /\ pc = "wait"
    /\ batch = 2
    /\ \E u \in BatchUnits(2) : InFlight(u)
    /\ \A u \in BatchUnits(1) : ust[u] = "yielded"

\* The steps C4 allows.
C4_Step ==
    /\ sigint_event => sigint_event'
    /\ (sigint_event /\ pc # "submit") => (pc' # "submit" /\ cycle' = cycle)
    /\ \A u \in Units :
          (sigint_event /\ ust[u] = "queued" /\ ust'[u] # "queued") =>
              (ust'[u] = "done" /\ reqs'[u] = 0)

\* C4: the SIGINT event is never cleared; once it is set and the coordinator
\* is not in the middle of submitting a batch, no unit is submitted any more
\* and no cycle is started; a unit that is taken from the queue while it is
\* set finishes without a transport request.
C4_CancellationStops == [][C4_Step]_vars

\* C4 witness: SIGINT came during the first of two batches; a queued unit was
\* refused and the coordinator went on to the report, the second batch unsent.
C4_Witness ==
    /\ sigint_event
    /\ pc = "display"
    /\ batch = 1
    /\ Len(batched_endpoints) = 2
    /\ \E u \in BatchUnits(1) : ust[u] = "done" /\ reqs[u] = 0
    /\ \A u \in BatchUnits(2) : ust[u] = "idle"

\* C5: once the SIGINT event is set, the coordinator reaches STOPPED.
C5_CancelLeadsToStopped == sigint_event ~> Stopped

\* C5 witness: STOPPED was reached after SIGINT while a unit of the batch
\* waited on was still queued or running.
C5_Witness ==
    /\ sigint_event
    /\ pc = "join"
    /\ \E u \in Units : InFlight(u)

\* The steps C6 allows.
C6_Step ==
    /\ (pc = "compute" /\ pc' # "compute") =>
          IF HEALTHCHECK_INTERVAL_SECONDS - elapsed <= 0
          THEN pc' = "shutdown" /\ "overrun" \in out'
          ELSE pc' = "sleep" /\ out' = out
    /\ (pc = "sleep" /\ pc' # "sleep") =>
          /\ pc' = "loop"
          /\ sigint_event \/ elapsed >= HEALTHCHECK_INTERVAL_SECONDS
    /\ (pc = "loop" /\ pc' # "loop" /\ ~sigint_event) =>
          (pc' = "submit" /\ cycle' = cycle + 1 /\ batch' = 1)
    /\ Stopped =>
          /\ Stopped'
          /\ cycle' = cycle
          /\ \A u \in Units : ust'[u] = "queued" => ust[u] = "queued"
    /\ Stopped' =>
          (sigint_event' \/ "overrun" \in out' \/ "exception" \in out')

\* C6: when the remaining time is computed, remaining <= 0 leads to the
\* overrun message and STOPPED, remaining > 0 to the inter-cycle wait; the
\* wait ends only at the end of the interval or on SIGINT and leads back to
\* the while test, which without SIGINT starts the next cycle; STOPPED is
\* never left, and it is reached only with SIGINT set, an overrun reported or
\* an exception reported.
C6_OverrunStopsElseNextCycle == [][C6_Step]_vars

\* C6 witness: the first cycle ended in time and was followed by a second,
\* which overran; SIGINT never came.
C6_Witness ==
    /\ cycle = 2
    /\ "overrun" \in out
    /\ ~sigint_event
    /\ pc = "join"

\* C7: a run stopped by an overrun with the SIGINT event never set has
\* printed the overrun message and not the stopping message; a run stopped by
\* SIGINT has printed the stopping message.
C7_DistinctMessages ==
    pc \in {"join", "exited"} =>
        /\ ("overrun" \in out /\ ~sigint_event) => "stopping" \notin out
        /\ (sigint_event /\ "overrun" \notin out /\ "exception" \notin out) =>
              "stopping" \in out

\* C8: for a list of N >= 1 endpoints and MAX_THREADS = C, batch_endpoints
\* returns ceil(N / min(2C, N)) batches of at most min(2C, N) endpoints, and
\* every endpoint of the list is at exactly one place of exactly one batch.
C8_BatchesPartition ==
    LET n == Len(arg_endpoints)
        size == Min(2 * arg_threads, n)
        v == ret_batches.value
        Places(e) == {p \in (1..Len(v)) \X (1..size) :
                          p[2] <= Len(v[p[1]]) /\ v[p[1]][p[2]] = e}
    IN  (ret_batches.called /\ n >= 1) =>
            /\ ~ret_batches.raised
            /\ Len(v) * size >= n
            /\ (Len(v) - 1) * size < n
            /\ \A k \in 1..Len(v) : Len(v[k]) >= 1 /\ Len(v[k]) <= size
            /\ \A k \in 1..Len(v) : \A j \in 1..Len(v[k]) : v[k][j] \in 1..n
            /\ \A e \in 1..n : Cardinality(Places(e)) = 1

\* C8 witness: a list that does not fill its last batch, returned out of
\* order.
C8_Witness ==
    /\ ret_batches.called
    /\ Len(ret_batches.value) = 2
    /\ Len(ret_batches.value[2]) < Len(ret_batches.value[1])
    /\ ret_batches.value[1][1] # 1

\* C9: with an empty endpoint list the run does not fail: batch_endpoints
\* returns no batch and main goes on to its loop.
C9_EmptyListHandled ==
    (pc # "idle" /\ Len(loaded) = 0) =>
        ("exception" \notin out /\ pc \notin {"join", "exited"})

\* C10: a cycle has no snapshot while it dispatches; the report starts only
\* when every batch has completed or SIGINT is set; from the end of the
\* report until the next cycle starts, and in STOPPED after a cycle, the
\* cycle has exactly one snapshot, with an entry for each registered domain
\* and for no other.
C10_OneSnapshotPerCycle ==
    LET registered == {registry[i] : i \in 1..Len(registry)}
    IN  /\ pc \in {"submit", "wait", "after_wait", "display"} => reports = 0
        /\ pc = "display" =>
              \/ sigint_event
              \/ /\ batch = Len(batched_endpoints)
                 /\ \A u \in 1..Len(endpoints) : ust[u] = "yielded"
        /\ (cycle >= 1 /\ pc \notin {"submit", "wait", "after_wait", "display"}) =>
              /\ reports = 1
              /\ \A d \in registered : snapshot[d] # -1
        /\ \A d \in Domains \ registered : snapshot[d] = -1

\* C10 witness: a completed snapshot of two domains, one of them with no
\* recorded check and shown at 0.
C10_Witness ==
    /\ pc = "compute"
    /\ Len(registry) = 2
    /\ \E d \in Domains : num_total[d] = 0 /\ snapshot[d] = 0
    /\ \E d \in Domains : num_total[d] > 0 /\ snapshot[d] = 100

\* The number of configured endpoints whose domain is d.
EndpointCount(d) == Cardinality({i \in 1..Len(endpoints) : endpoints[i] = d})

\* The steps C11 allows.
C11_Step ==
    /\ \A d \in Domains :
          num_up'[d] >= num_up[d] /\ num_total'[d] >= num_total[d]
    /\ (/\ ~sigint_event'
        /\ pc' \in {"display", "compute", "sleep", "loop", "shutdown", "join",
                    "exited"}) =>
          \A d \in Domains : num_total'[d] = cycle' * EndpointCount(d)

\* C11: num_up and num_total of no record ever decrease, and when the batches
\* of the k-th cycle have all completed and SIGINT was never received, the
\* num_total of every domain is k times the number of its endpoints.
C11_CumulativeCounters == [][C11_Step]_vars

\* The steps C12 allows.
C12_Step ==
    \A u \in Units :
        LET d == DomainOf(u)
        IN  /\ (~req_failed[u] /\ req_failed'[u]) =>
                  /\ ust[u] = "request" /\ ust'[u] = "lock"
                  /\ ~is_up'[u] /\ ~fut_exc'[u]
                  /\ pc' = pc /\ out' = out
                  /\ \A v \in Units \ {u} : ust'[v] = ust[v] /\ calls'[v] = calls[v]
            /\ (req_failed[u] /\ ust[u] # "done" /\ ust'[u] = "done") =>
                  /\ calls'[u] = 1
                  /\ num_total'[d] = num_total[d] + 1
                  /\ num_up'[d] = num_up[d]
            /\ (/\ ust[u] = "done" /\ ust'[u] = "yielded"
                /\ ~sigint_event /\ ~fut_exc[u]) =>
                  calls[u] = 1

\* C12: a request that raises RequestException leaves its unit on the way to
\* add_endpoint_result with is_up false, puts no exception in the future,
\* changes neither the position nor the messages of main, and touches no
\* other unit; the unit then ends with one call that adds 1 to num_total of
\* its domain and nothing to num_up; and when SIGINT was not received, every
\* future that as_completed yields without an exception of its own has
\* made exactly one add_endpoint_result call.
C12_TransportFailureIsDown == [][C12_Step]_vars

\* C12 witness: in the second cycle, without SIGINT, the request of the
\* first unit of a batch of two has raised RequestException and the unit is
\* inside add_endpoint_result with is_up false, the second unit of the batch
\* still queued behind it; both endpoints were recorded in the first cycle.
C12_Witness ==
    /\ pc = "wait"
    /\ ~sigint_event
    /\ cycle = 2
    /\ Len(batched_endpoints[batch]) = 2
    /\ LET u == UnitOf(batch, 1)
           v == UnitOf(batch, 2)
       IN  /\ ust[u] = "write_total" /\ req_failed[u] /\ ~is_up[u]
           /\ ust[v] = "queued"

\* The steps C13 allows.
C13_Step ==
    /\ raises > 0 => (batch' = batch /\ cycle' = cycle)
    /\ "exception" \in out' => Stopped'
    /\ "exception" \in out => (cycle' = cycle /\ ust' = ust)

\* C13: once the request of a unit has raised an exception that is not a
\* RequestException, main goes on to no further batch and to no further
\* cycle; and an exception caught in main (line 213) leaves main STOPPED,
\* with no unit submitted and no cycle started after it.
C13_FailureIsFatal == [][C13_Step]_vars

\* A descriptor without name, without url, or with a url that urlparse does
\* not turn into a domain.
Malformed(yaml_dict) ==
    \/ "name" \notin DOMAIN yaml_dict
    \/ "url" \notin DOMAIN yaml_dict
    \/ urlparse(yaml_dict.url).raised
    \/ urlparse(yaml_dict.url).netloc = ""

\* C14: when a descriptor of the YAML list is malformed, main is either
\* before its load or ended by the exception of the load, and no unit was
\* ever submitted and no request made.
C14_MalformedIsFatal ==
    (\E i \in 1..Len(loaded) : Malformed(loaded[i])) =>
        /\ pc \in {"idle", "join", "exited"}
        /\ pc # "idle" => "exception" \in out
        /\ \A u \in Units : ust[u] = "idle" /\ reqs[u] = 0

\* C15: the unit of a request that did not raise passes is_up = TRUE to
\* add_endpoint_result exactly if a response was received with a status code
\* in 200..299; when it has ended, num_total of its domain is 1 and num_up is
\* 1 for such a response and 0 for every other response and for a
\* RequestException.
C15_UpIffStatus2xx ==
    LET o == arg_outcome
        up == o.exc = "none" /\ o.status \in 200..299
    IN  /\ ust[1] \in {"lock", "write_up", "read_total", "write_total"} =>
              /\ o.exc # "Exception"
              /\ is_up[1] = up
        /\ (ust[1] = "done" /\ o.exc # "Exception") =>
              /\ num_total[DomainOf(1)] = 1
              /\ num_up[DomainOf(1)] = IF up THEN 1 ELSE 0

\* C15 witness: a response with status 299 was recorded as up.
C15_Witness ==
    /\ arg_outcome = [exc |-> "none", status |-> 299]
    /\ ust[1] = "done"
    /\ num_up[DomainOf(1)] = 1
    /\ num_total[DomainOf(1)] = 1

\* C16: in every state, also between the two increments of an
\* add_endpoint_result call, the counters of every record are not negative
\* and num_total is at least num_up.
C16_TotalAtLeastUp ==
    \A d \in Domains :
        num_up[d] >= 0 /\ num_total[d] >= 0 /\ num_total[d] >= num_up[d]

\* C17: from STOPPED main goes on to the end of the process, and when the
\* process has ended no check unit is queued or running.
C17_StoppedLeadsToCleanExit ==
    /\ Stopped ~> (pc = "exited")
    /\ [](pc = "exited" => \A u \in Units : ~InFlight(u))

\* C17 witness: the process has ended after SIGINT in the first of two
\* batches; a unit of the batch was taken by the worker after SIGINT and
\* refused, and its future was never looked at by main.
C17_Witness ==
    /\ pc = "exited"
    /\ sigint_event
    /\ Len(batched_endpoints) = 2
    /\ batch = 1
    /\ \E u \in BatchUnits(1) : ust[u] = "done" /\ reqs[u] = 0

\* main can take a step without any worker taking one first.
CanProceed == ENABLED Coordinator

\* The steps C18 allows.
C18_Step ==
    (/\ pc = "wait"
     /\ ~sigint_event /\ sigint_event'
     /\ \E u \in BatchUnits(batch) : ust[u] \notin {"done", "yielded"}) =>
        CanProceed'

\* C18: when the SIGINT event is set while main waits on a batch that has
\* unfinished units, main can take its next step, towards the report, in
\* the state reached: no further unit has to complete first.
C18_CancelEndsWaitAtOnce == [][C18_Step]_vars

\* C19: every availability printed by display_availability is an integer of
\* 0..100, also when units of the batch left on SIGINT are still running.
C19_AvailabilityInRange ==
    \A d \in Domains : snapshot[d] # -1 => snapshot[d] \in 0..100

\* C20: record_endpoint_status of main.py adds 1 to num_total, and adds 1 to
\* num_up exactly if a response was received with a status code in 200..299.
C20_VariantUpIffStatus2xx ==
    LET o == arg_outcome
        d == DomainOf(1)
    IN  ust[1] = "done" =>
            /\ num_total[d] = 1
            /\ num_up[d] = IF o.exc = "none" /\ o.status \in 200..299 THEN 1 ELSE 0

=============================================================================
